---------------------------- MODULE Spec2Model ----------------------------
(***************************************************************************)
(* A model of urdfenvs: the Lidar sensor (urdfenvs/sensors/lidar.py), and  *)
(* the pose/transform utilities and the environment UrdfEnv of             *)
(* urdfenvs/urdf_common/urdf_env.py.                                       *)
(*                                                                         *)
(* Numbers.  The program computes in IEEE doubles.  The model computes in  *)
(* fixed point with round-to-nearest: lengths in units of 1/LenScale,      *)
(* angles in whole degrees, sines and cosines as integers over TrigScale,  *)
(* hit fractions in units of 1/HitDen.  Every product is rounded once, as  *)
(* a floating-point product is, so results carry rounding error of either  *)
(* sign.  Quaternions are exact rationals (integer numerators over one     *)
(* denominator), restricted to those whose norm is rational.               *)
(***************************************************************************)
EXTENDS Integers, Sequences, FiniteSets, TLC

(***************************************************************************)
(* Bounds of the model.                                                    *)
(***************************************************************************)
MaxRays == 2
MaxCalls == 3
MaxQuat == 2
MaxSteps == 2
MaxBodies == 2
MaxAttached == 2
MaxSetSpaces == 2

(***************************************************************************)
(* Arithmetic.                                                             *)
(***************************************************************************)
LenScale == 10 * 10 * 10
TrigScale == 10 * 10 * 10 * 10

Abs(a) == IF a < 0 THEN -a ELSE a

\* a / b rounded to the nearest integer, halves away from zero (b > 0).
RoundDiv(a, b) ==
    IF a >= 0 THEN (2 * a + b) \div (2 * b) ELSE -((2 * (-a) + b) \div (2 * b))

RECURSIVE SqrtSearch(_, _, _)
\* The largest r in lo..hi with r * r <= n (lo * lo <= n).
SqrtSearch(n, lo, hi) ==
    IF lo >= hi THEN lo
    ELSE LET mid == (lo + hi + 1) \div 2
         IN  IF mid * mid <= n THEN SqrtSearch(n, mid, hi)
             ELSE SqrtSearch(n, lo, mid - 1)

SqrtFloor(n) == SqrtSearch(n, 0, 46340)

\* sqrt(n) rounded to the nearest integer.
SqrtRound(n) ==
    LET r == SqrtFloor(n) IN IF n - r * r > r THEN r + 1 ELSE r

IsSquare(n) == n >= 0 /\ SqrtFloor(n) * SqrtFloor(n) = n

\* round(TrigScale * sin(d degrees)) for d = 0..90.
SinTable ==
    << 0, 175, 349, 523, 698, 872, 1045, 1219, 1392, 1564,
       1736, 1908, 2079, 2250, 2419, 2588, 2756, 2924, 3090, 3256,
       3420, 3584, 3746, 3907, 4067, 4226, 4384, 4540, 4695, 4848,
       5000, 5150, 5299, 5446, 5592, 5736, 5878, 6018, 6157, 6293,
       6428, 6561, 6691, 6820, 6947, 7071, 7193, 7314, 7431, 7547,
       7660, 7771, 7880, 7986, 8090, 8192, 8290, 8387, 8480, 8572,
       8660, 8746, 8829, 8910, 8988, 9063, 9135, 9205, 9272, 9336,
       9397, 9455, 9511, 9563, 9613, 9659, 9703, 9744, 9781, 9816,
       9848, 9877, 9903, 9925, 9945, 9962, 9976, 9986, 9994, 9998,
       10000 >>

\* np.sin and np.cos of an angle in degrees, scaled by TrigScale.
Sin(a) ==
    LET r == a % 360
    IN  IF r <= 90 THEN SinTable[r + 1]
        ELSE IF r <= 180 THEN SinTable[180 - r + 1]
        ELSE IF r <= 270 THEN -SinTable[r - 180 + 1]
        ELSE -SinTable[360 - r + 1]

Cos(a) == Sin(a + 90)

\* (the 1-norm in place of the Euclidean norm)
Norm1(x, y) == Abs(x) + Abs(y)

\* np.linalg.norm of a 2-vector.
Norm2(x, y) == SqrtRound(x * x + y * y)

(***************************************************************************)
(* The world the sensor reads: the robot body, its link poses, the         *)
(* raycast answers and the marker registry of the physics engine.          *)
(***************************************************************************)
\* The joint names of the robot body the sensor is attached to.
Bodies ==
    { << "base", "arm1", "lidar_mount", "arm2" >>,
      << "lidar_mount" >> }

\* link_name as given to Lidar(...): a joint name or an integer link handle.
Name(s) == [is_int |-> FALSE, name |-> s, id |-> 0]
Handle(h) == [is_int |-> TRUE, name |-> "", id |-> h]
LinkNames == { Name("lidar_mount"), Name("missing"), Handle(0), Handle(1) }

\* Link poses p.getLinkState can answer: a position and the yaw of the
\* orientation (p.getEulerFromQuaternion(...)[2]), in degrees.
Poses ==
    { [pos |-> << 0, 0, 0 >>, yaw |-> 0],
      [pos |-> << LenScale, -2 * LenScale, LenScale \div 2 >>, yaw |-> 35] }

\* Hit fractions p.rayTest can answer, in units of 1/HitDen: 0, 1/2 and 1.
HitFractions == { 0, 1, 2 }
HitDen == CHOOSE m \in HitFractions : \A f \in HitFractions : f <= m

\* ray_length (10.0, the default) and angle_limits in degrees
\* ([-pi, pi], the default, and [-pi/2, pi/2]).
RayLengths == { 10 * LenScale }
AngleLimits == { << -180, 180 >>, << -90, 90 >> }

\* The slack 0.01 of the observation space.
Epsilon == LenScale \div 100

VARIABLES
    joint_names,    \* the body's joint names, by joint index + 1
    link_name,      \* Lidar._link_name
    link_id,        \* Lidar._link_id: << >> is None, << h >> the handle h
    nb_rays,        \* Lidar._nb_rays
    raw_data,       \* Lidar._raw_data
    ray_length,     \* Lidar._ray_length
    angle_limits,   \* Lidar._angle_limits
    thetas,         \* Lidar._thetas
    rel_positions,  \* Lidar._rel_positions (2 * nb_rays numbers)
    distances,      \* Lidar._distances
    sphere_ids,     \* Lidar._sphere_ids
    marker_pos,     \* engine: base position of the marker bodies, by body id
    ret,            \* the outcome of the last sense() call
    link_queries,   \* the link ids of the getLinkState calls of the last sense()
    ray_tests,      \* the << start, end >> of the rayTest calls of the last sense()
    last_pose,      \* the link pose the engine answered in the last sense()
    last_hits,      \* the hit fractions the engine answered in the last sense()
    nSense,         \* number of sense() calls so far
    nScans,         \* number of extract_link_id runs so far
    nResolved,      \* number of extract_link_id runs that set _link_id
    create_log,     \* for each marker body created, the sense() call that did
    vis_fault,      \* whether any marker operation of the engine has failed
    repeated,       \* whether the last two sense() calls both returned, on the
                    \* same link pose and the same hit fractions
    heap,           \* the numpy arrays there are, by array object
    returned,       \* the array objects sense() calls have returned
    overwritten     \* whether a sense() call has changed the contents of an
                    \* array object returned by an earlier call

lidar_vars ==
    << joint_names, link_name, link_id, nb_rays, raw_data, ray_length,
       angle_limits, thetas, rel_positions, distances, sphere_ids,
       marker_pos, ret, link_queries, ray_tests, last_pose,
       last_hits, nSense, nScans, nResolved, create_log, vis_fault,
       repeated, heap, returned, overwritten >>

VARIABLES
    q_in,           \* the quaternion array as the caller built it
    q_arg,          \* the caller's quaternion array, as it is now
    t_arg,          \* the caller's translation array
    tf_matrix,      \* the matrix get_transformation_matrix returned last
    tf_ret,         \* the outcome of the last matrix_to_quaternion call
    rot_ret         \* the outcome of the last direct
                    \* quaternion_to_rotation_matrix call, with its ordering

transform_vars == << q_in, q_arg, t_arg, tf_matrix, tf_ret, rot_ret >>

VARIABLES
    observation_checking,  \* UrdfEnv._observation_checking
    env_t,                 \* UrdfEnv._t, in steps of dt
    env_done,              \* UrdfEnv._done
    env_info,              \* UrdfEnv._info
    robot_sensors,         \* robot._sensors, by robot
    sensors,               \* UrdfEnv.sensors
    observation_space,     \* UrdfEnv.observation_space, by robot
    action_space,          \* UrdfEnv.action_space (flattened)
    obsts,                 \* UrdfEnv._obsts, by body id
    goals,                 \* UrdfEnv._goals, by body id
    body_pos,              \* engine: the base position of each body
    next_body,             \* engine: the id of the next body created
    applied,               \* the action each robot was given last
    sim_steps,             \* engine: number of stepSimulation calls
    step_in,               \* the inputs of the last step() call
    step_ret,              \* the outcome of the last step() call
    reset_ret,             \* the outcome of the last reset() call, and the
                           \* number of step() calls before it
    nSetSpaces             \* number of set_spaces() calls

env_vars ==
    << observation_checking, env_t, env_done, env_info, robot_sensors,
       sensors, observation_space, action_space, obsts, goals, body_pos,
       next_body, applied, sim_steps, step_in, step_ret, reset_ret,
       nSetSpaces >>

vars == << lidar_vars, transform_vars, env_vars >>

NoPose == [pos |-> << 0, 0, 0 >>, yaw |-> 0]
NoReturn == [kind |-> "none", value |-> << >>, msg |-> << >>]

(***************************************************************************)
(* Lidar.__init__                                                          *)
(***************************************************************************)
\* (angles that run up to and including angle_limits[1])
InitThetasInclusive(limits, n) ==
    [i \in 1..n |-> limits[1] + (i * (limits[2] - limits[1])) \div n]

\* _thetas: angle_limits[0] + i * (angle_limits[1] - angle_limits[0]) / n.
InitThetas(limits, n) ==
    [i \in 1..n |-> limits[1] + ((i - 1) * (limits[2] - limits[1])) \div n]

\* The array objects __init__ allocates: _rel_positions and _distances.
RelPositionsArray == 1
DistancesArray == 2

LidarInit ==
    /\ joint_names \in Bodies
    /\ link_name \in LinkNames
    /\ link_name.is_int => link_name.id < Len(joint_names)
    /\ link_id = IF link_name.is_int THEN << link_name.id >> ELSE << >>
    /\ nb_rays \in 1..MaxRays
    /\ raw_data \in BOOLEAN
    /\ ray_length \in RayLengths
    /\ angle_limits \in AngleLimits
    /\ thetas = InitThetas(angle_limits, nb_rays)
    /\ rel_positions = [j \in 1..(2 * nb_rays) |-> 0]
    /\ distances = [i \in 1..nb_rays |-> 0]
    /\ sphere_ids = [i \in 1..nb_rays |-> -1]
    /\ marker_pos = << >>
    /\ ret = NoReturn
    /\ link_queries = << >>
    /\ ray_tests = << >>
    /\ last_pose = NoPose
    /\ last_hits = << >>
    /\ nSense = 0
    /\ nScans = 0
    /\ nResolved = 0
    /\ create_log = << >>
    /\ vis_fault = FALSE
    /\ repeated = FALSE
    /\ heap = << rel_positions, distances >>
    /\ returned = { }
    /\ overwritten = FALSE

\* get_observation_size
get_observation_size == IF raw_data THEN nb_rays ELSE nb_rays * 2

\* get_observation_space: the Box [-ray_length - 0.01, ray_length + 0.01]^size.
ObservationLow == -ray_length - Epsilon
ObservationHigh == ray_length + Epsilon
InObservationSpace(a) ==
    /\ Len(a) = get_observation_size
    /\ \A j \in 1..Len(a) : ObservationLow <= a[j] /\ a[j] <= ObservationHigh

(***************************************************************************)
(* Lidar.extract_link_id                                                   *)
(***************************************************************************)
\* joint_name == self._link_name: a str never equals an int.
NameEq(joint_name, ln) == ~ln.is_int /\ ln.name = joint_name

\* (a scan that skips joint 0)
MatchingJointsFromOne(names, ln) ==
    { i \in 1..(Len(names) - 1) : NameEq(names[i + 1], ln) }

\* The loop over range(number_links): the joint indices whose name matches.
MatchingJoints(names, ln) == { i \in 0..(Len(names) - 1) : NameEq(names[i + 1], ln) }

\* The scan's outcome: found with the first matching index, or not found
\* with the names appended on the way (all of them).
extract_link_id(names, ln) ==
    LET hits == MatchingJoints(names, ln)
    IN  IF hits # {}
        THEN [found |-> TRUE,
              id |-> CHOOSE i \in hits : \A k \in hits : i <= k,
              msg |-> << >>]
        ELSE [found |-> FALSE, id |-> -1, msg |-> names]

(***************************************************************************)
(* Lidar.sense                                                             *)
(***************************************************************************)
\* not self._link_id: true of None and of 0.
NotLinkId(lid) == lid = << >> \/ lid[1] = 0

\* ray_start + ray_length * [cos(theta + yaw), sin(theta + yaw), 0.0]
RayEnd(pos, theta, yaw) ==
    << pos[1] + RoundDiv(ray_length * Cos(theta + yaw), TrigScale),
       pos[2] + RoundDiv(ray_length * Sin(theta + yaw), TrigScale),
       pos[3] >>

\* (sine and cosine exchanged)
RelPositionSwapped(f, theta, yaw) ==
    << RoundDiv(f * ray_length * Sin(theta + yaw), HitDen * TrigScale),
       RoundDiv(f * ray_length * Cos(theta + yaw), HitDen * TrigScale) >>

\* lidar[0][2] * ray_length * [cos(theta + yaw), sin(theta + yaw)]
RelPosition(f, theta, yaw) ==
    << RoundDiv(f * ray_length * Cos(theta + yaw), HitDen * TrigScale),
       RoundDiv(f * ray_length * Sin(theta + yaw), HitDen * TrigScale) >>

\* _rel_positions after the loop over the rays.
SensedRelPositions(pose, hits) ==
    [j \in 1..(2 * nb_rays) |->
        LET i == (j + 1) \div 2
        IN  RelPosition(hits[i], thetas[i], pose.yaw)[2 - (j % 2)]]

\* (distances added to the stored ones)
SensedDistancesAccumulated(rel) ==
    [i \in 1..nb_rays |-> distances[i] + Norm2(rel[2 * i - 1], rel[2 * i])]

\* _distances after the loop: the norm of each ray's slice of _rel_positions.
SensedDistances(rel) ==
    [i \in 1..nb_rays |-> Norm2(rel[2 * i - 1], rel[2 * i])]

\* q + q_obs[ray_id]: the marker position of ray k.
MarkerPosition(pos, rel, k) ==
    << pos[1] + rel[2 * k - 1], pos[2] + rel[2 * k], pos[3] >>

\* (markers initialised on every call)
NeedInitAlways(ids) == ids = ids

\* self._sphere_ids[0] == -1
NeedInit(ids) == ids[1] = -1

\* update_lidar_spheres (with init_lidar_spheres).  fail names the marker
\* operation of the engine that fails in this call: 0 none, 1 the
\* createVisualShape, 1 + k the createMultiBody of ray k, nb_rays + 1 + k the
\* resetBasePositionAndOrientation of ray k; an operation the call does not
\* reach cannot fail.
update_lidar_spheres(pos, rel, fail) ==
    LET needInit == NeedInit(sphere_ids)
        shapeFails == needInit /\ fail = 1
        createFail == IF needInit /\ fail \in 2..(nb_rays + 1) THEN fail - 1 ELSE 0
        nCreate == IF ~needInit \/ shapeFails THEN 0
                   ELSE IF createFail > 0 THEN createFail - 1
                   ELSE nb_rays
        base == Len(marker_pos)
        ids == [k \in 1..nb_rays |->
                   IF k <= nCreate THEN base + k ELSE sphere_ids[k]]
        initRaised == shapeFails \/ createFail > 0
        resetFail == IF ~initRaised /\ fail \in (nb_rays + 2)..(2 * nb_rays + 1)
                     THEN fail - nb_rays - 1 ELSE 0
        nReset == IF initRaised THEN 0
                  ELSE IF resetFail > 0 THEN resetFail - 1
                  ELSE nb_rays
        created == [k \in 1..nCreate |-> MarkerPosition(pos, rel, k)]
        registry == marker_pos \o created
        moved == [b \in 1..Len(registry) |->
                     IF \E k \in 1..nReset : ids[k] = b
                     THEN MarkerPosition(pos, rel,
                              CHOOSE k \in 1..nReset : ids[k] = b)
                     ELSE registry[b]]
    IN  [ids |-> ids, registry |-> moved, nCreate |-> nCreate,
         raised |-> initRaised \/ resetFail > 0]

\* The loop over the rays writes into the sensor's two arrays.
WriteArrays(h, rel, dist) ==
    [h EXCEPT ![RelPositionsArray] = rel, ![DistancesArray] = dist]

\* (a return that allocates a new array holding the result)
SenseReturnsCopy(h, raw) ==
    [heap |-> Append(h, h[IF raw THEN DistancesArray ELSE RelPositionsArray]),
     array |-> Len(h) + 1]

\* return self._distances / return self._rel_positions: the arrays there
\* are after the return, and the array object returned.
SenseReturns(h, raw) ==
    [heap |-> h, array |-> IF raw THEN DistancesArray ELSE RelPositionsArray]

\* One sense() call in which the engine answers the link pose `pose`, the
\* hit fractions `hits` and the marker failure `fail`.
\* (rel and dist are the arrays the loop over the rays computes from pose
\* and hits.)
sense(pose, hits, fail, rel, dist) ==
    \E scan \in { extract_link_id(joint_names, link_name) },
       vis \in { update_lidar_spheres(pose.pos, rel, fail) },
       out \in { SenseReturns(WriteArrays(heap, rel, dist), raw_data) } :
    LET scanned == NotLinkId(link_id)
        lid == IF scanned /\ scan.found THEN << scan.id >> ELSE link_id
    IN  /\ nSense' = nSense + 1
        /\ nScans' = IF scanned THEN nScans + 1 ELSE nScans
        /\ nResolved' = IF scanned /\ scan.found THEN nResolved + 1 ELSE nResolved
        /\ link_id' = lid
        /\ IF scanned /\ ~scan.found
           THEN /\ ret' = [kind |-> "LinkIdNotFoundError", value |-> << >>,
                           msg |-> scan.msg]
                /\ link_queries' = << >>
                /\ ray_tests' = << >>
                /\ last_pose' = NoPose
                /\ last_hits' = << >>
                /\ repeated' = FALSE
                /\ UNCHANGED << rel_positions, distances, sphere_ids,
                                marker_pos, create_log, vis_fault,
                                heap, returned, overwritten >>
           ELSE /\ link_queries' = << lid[1] >>
                /\ ray_tests' = [i \in 1..nb_rays |->
                                    << pose.pos, RayEnd(pose.pos, thetas[i], pose.yaw) >>]
                /\ last_pose' = pose
                /\ last_hits' = hits
                /\ rel_positions' = rel
                /\ distances' = dist
                /\ sphere_ids' = vis.ids
                /\ marker_pos' = vis.registry
                /\ create_log' = create_log \o [k \in 1..vis.nCreate |-> nSense + 1]
                /\ vis_fault' = (vis_fault \/ vis.raised)
                /\ repeated' = (/\ ret.kind = "ok"
                                /\ ~vis.raised
                                /\ last_pose = pose
                                /\ last_hits = hits)
                /\ ret' = IF vis.raised
                          THEN [kind |-> "MarkerError", value |-> << >>, msg |-> << >>]
                          ELSE [kind |-> "ok",
                                value |-> IF raw_data THEN dist ELSE rel,
                                msg |-> << >>]
                /\ heap' = IF vis.raised THEN WriteArrays(heap, rel, dist)
                           ELSE out.heap
                /\ returned' = IF vis.raised THEN returned
                               ELSE returned \cup { out.array }
                /\ overwritten' =
                       (\/ overwritten
                        \/ \E a \in returned :
                               WriteArrays(heap, rel, dist)[a] # heap[a])
        /\ UNCHANGED << joint_names, link_name, nb_rays, raw_data, ray_length,
                        angle_limits, thetas >>
        /\ UNCHANGED << transform_vars, env_vars >>

\* sense() with an engine whose marker operations succeed.
Sense ==
    /\ nSense < MaxCalls
    /\ \E pose \in Poses, hits \in [1..nb_rays -> HitFractions] :
       \E rel \in { SensedRelPositions(pose, hits) } :
       \E dist \in { SensedDistances(rel) } :
            sense(pose, hits, 0, rel, dist)

\* The marker failures a call can meet: those of the operations it reaches.
MarkerFaults(ids) ==
    { 0 } \cup (IF NeedInit(ids) THEN 1..(nb_rays + 1) ELSE { })
          \cup (nb_rays + 2)..(2 * nb_rays + 1)

\* sense() with an engine whose marker operations may fail (visualization
\* unavailable); every ray of the call is given the same hit fraction.
SenseWithFaults ==
    /\ nSense < MaxCalls
    /\ \E pose \in Poses, f \in HitFractions :
       \E hits \in { [i \in 1..nb_rays |-> f] } :
       \E rel \in { SensedRelPositions(pose, hits) } :
       \E dist \in { SensedDistances(rel) } :
       \E fail \in MarkerFaults(sphere_ids) :
            sense(pose, hits, fail, rel, dist)

(***************************************************************************)
(* The transform utilities of urdf_env.py.  A quaternion array is          *)
(* [num |-> << a, b, c, d >>, den |-> n]: the components a/n, b/n, c/n,    *)
(* d/n.  A 3x3 rotation is kept as integers over one denominator too.      *)
(***************************************************************************)
SumSq(v) == v[1] * v[1] + v[2] * v[2] + v[3] * v[3] + v[4] * v[4]

\* The integer 4-vectors of rational norm.
QuaternionNums ==
    { v \in [1..4 -> (-MaxQuat)..MaxQuat] : SumSq(v) > 0 /\ IsSquare(SumSq(v)) }

\* The arrays a caller passes: unit quaternions and unnormalized ones.
QuaternionArrays ==
    { [num |-> v, den |-> d] : v \in QuaternionNums, d \in { 1 } }
      \cup { [num |-> v, den |-> SqrtFloor(SumSq(v))] : v \in QuaternionNums }

Translations == { << 0, 0, 0 >>, << 1, -2, 3 >> }

Orderings == { "wxyz", "xyzw", "bogus" }

IsUnit(q) == SumSq(q.num) = q.den * q.den
QEq(a, b) == \A i \in 1..4 : a.num[i] * b.den = b.num[i] * a.den
QNeg(a) == [num |-> [i \in 1..4 |-> -a.num[i]], den |-> a.den]

\* (an array left as the caller built it)
NotNormalized(q) == q

\* quaternion /= np.linalg.norm(quaternion)
Normalized(q) == [num |-> q.num, den |-> SqrtFloor(SumSq(q.num))]

\* (a conversion that answers the identity rotation whatever it is given)
RotationOrDefault(q, ordering) ==
    LET K == q.den * q.den
    IN  [kind |-> "ok",
         rot |-> << << K, 0, 0 >>, << 0, K, 0 >>, << 0, 0, K >> >>,
         den |-> K]

\* quaternion_to_rotation_matrix, on the normalized quaternion: the rotation
\* over the denominator den * den, or the error.
quaternion_to_rotation_matrix(q, ordering) ==
    LET w == IF ordering = "wxyz" THEN q.num[1] ELSE q.num[4]
        x == IF ordering = "wxyz" THEN q.num[2] ELSE q.num[1]
        y == IF ordering = "wxyz" THEN q.num[3] ELSE q.num[2]
        z == IF ordering = "wxyz" THEN q.num[4] ELSE q.num[3]
        K == q.den * q.den
    IN  IF ordering \notin { "wxyz", "xyzw" }
        THEN [kind |-> "InvalidQuaternionOrderError", rot |-> << >>, den |-> 1]
        ELSE [kind |-> "ok",
              rot |-> << << K - 2 * y * y - 2 * z * z,
                            2 * x * y - 2 * w * z,
                            2 * x * z + 2 * w * y >>,
                         << 2 * x * y + 2 * w * z,
                            K - 2 * x * x - 2 * z * z,
                            2 * y * z - 2 * w * x >>,
                         << 2 * x * z - 2 * w * y,
                            2 * y * z + 2 * w * x,
                            K - 2 * x * x - 2 * y * y >> >>,
              den |-> K]

\* The ordering get_transformation_matrix passes on.
TransformOrdering == "xyzw"

\* get_transformation_matrix: the rotation block and the translation column
\* of the 4x4 matrix (its last row is 0 0 0 1).
get_transformation_matrix(q, t) ==
    LET r == quaternion_to_rotation_matrix(q, TransformOrdering)
    IN  [rot |-> r.rot, den |-> r.den, trans |-> t]

\* The ordering matrix_to_quaternion assumes when it is given none.
DefaultOrdering == "wxyz"

\* matrix_to_quaternion: (translation, quaternion) or the error.  With the
\* matrix over the denominator K = n * n, the code's s is S / n and its
\* w, x, y, z are the integers below over n.
matrix_to_quaternion(m, ordering) ==
    LET R == m.rot
        K == m.den
        n == SqrtFloor(K)
        trace == R[1][1] + R[2][2] + R[3][3]
        branch == IF trace > 0 THEN 0
                  ELSE IF R[1][1] > R[2][2] /\ R[1][1] > R[3][3] THEN 1
                  ELSE IF R[2][2] > R[3][3] THEN 2
                  ELSE 3
        S == IF branch = 0 THEN 2 * SqrtFloor(trace + K)
             ELSE IF branch = 1 THEN 2 * SqrtFloor(K + R[1][1] - R[2][2] - R[3][3])
             ELSE IF branch = 2 THEN 2 * SqrtFloor(K + R[2][2] - R[1][1] - R[3][3])
             ELSE 2 * SqrtFloor(K + R[3][3] - R[1][1] - R[2][2])
        w == IF branch = 0 THEN S \div 4
             ELSE IF branch = 1 THEN (R[3][2] - R[2][3]) \div S
             ELSE IF branch = 2 THEN (R[1][3] - R[3][1]) \div S
             ELSE (R[2][1] - R[1][2]) \div S
        x == IF branch = 0 THEN (R[3][2] - R[2][3]) \div S
             ELSE IF branch = 1 THEN S \div 4
             ELSE IF branch = 2 THEN (R[1][2] + R[2][1]) \div S
             ELSE (R[1][3] + R[3][1]) \div S
        y == IF branch = 0 THEN (R[1][3] - R[3][1]) \div S
             ELSE IF branch = 1 THEN (R[1][2] + R[2][1]) \div S
             ELSE IF branch = 2 THEN S \div 4
             ELSE (R[2][3] + R[3][2]) \div S
        z == IF branch = 0 THEN (R[2][1] - R[1][2]) \div S
             ELSE IF branch = 1 THEN (R[1][3] + R[3][1]) \div S
             ELSE IF branch = 2 THEN (R[2][3] + R[3][2]) \div S
             ELSE S \div 4
    IN  IF ordering = "wxyz"
        THEN [kind |-> "ok", translation |-> m.trans, ordering |-> ordering,
              quaternion |-> [num |-> << w, x, y, z >>, den |-> n]]
        ELSE IF ordering = "xyzw"
        THEN [kind |-> "ok", translation |-> m.trans, ordering |-> ordering,
              quaternion |-> [num |-> << x, y, z, w >>, den |-> n]]
        ELSE [kind |-> "InvalidQuaternionOrderError", translation |-> << >>,
              ordering |-> ordering,
              quaternion |-> [num |-> << 1, 0, 0, 0 >>, den |-> 1]]

NoMatrix == [rot |-> << >>, den |-> 1, trans |-> << >>]
NoQuaternion ==
    [kind |-> "none", translation |-> << >>, ordering |-> "",
     quaternion |-> [num |-> << 1, 0, 0, 0 >>, den |-> 1]]

NoRotation == [ordering |-> "", kind |-> "none", rot |-> << >>, den |-> 1]

TransformInit ==
    /\ q_in \in QuaternionArrays
    /\ q_arg = q_in
    /\ t_arg \in Translations
    /\ tf_matrix = NoMatrix
    /\ tf_ret = NoQuaternion
    /\ rot_ret = NoRotation

\* quaternion_to_rotation_matrix(q_arg, ordering): q_arg is normalized in
\* place, then the ordering is looked at.
QuaternionToRotationMatrix ==
    /\ rot_ret = NoRotation
    /\ \E ordering \in Orderings :
       \E r \in { quaternion_to_rotation_matrix(Normalized(q_arg), ordering) } :
           rot_ret' = [ordering |-> ordering, kind |-> r.kind,
                       rot |-> r.rot, den |-> r.den]
    /\ q_arg' = Normalized(q_arg)
    /\ UNCHANGED << q_in, t_arg, tf_matrix, tf_ret >>
    /\ UNCHANGED << lidar_vars, env_vars >>

\* m = get_transformation_matrix(q_arg, t_arg): q_arg is normalized in place.
GetTransformationMatrix ==
    /\ tf_matrix = NoMatrix
    /\ q_arg' = Normalized(q_arg)
    /\ tf_matrix' = get_transformation_matrix(Normalized(q_arg), t_arg)
    /\ UNCHANGED << q_in, t_arg, tf_ret, rot_ret >>
    /\ UNCHANGED << lidar_vars, env_vars >>

\* matrix_to_quaternion(m), with the default ordering, or
\* matrix_to_quaternion(m, ordering).
MatrixToQuaternion ==
    /\ tf_matrix # NoMatrix
    /\ tf_ret = NoQuaternion
    /\ \E ordering \in Orderings \cup { DefaultOrdering } :
           tf_ret' = matrix_to_quaternion(tf_matrix, ordering)
    /\ UNCHANGED << q_in, q_arg, t_arg, tf_matrix, rot_ret >>
    /\ UNCHANGED << lidar_vars, env_vars >>

\* No transform call is in progress or has been made.
TransformIdle ==
    /\ q_in = [num |-> << 0, 0, 0, 1 >>, den |-> 1]
    /\ q_arg = q_in
    /\ t_arg = << 0, 0, 0 >>
    /\ tf_matrix = NoMatrix
    /\ tf_ret = NoQuaternion
    /\ rot_ret = NoRotation

\* One sensor, never used.
LidarIdle ==
    /\ LidarInit
    /\ joint_names = << "lidar_mount" >>
    /\ link_name = Name("lidar_mount")
    /\ nb_rays = 1
    /\ raw_data
    /\ angle_limits = << -180, 180 >>

(***************************************************************************)
(* UrdfEnv of urdf_env.py.  The robots, the obstacles and goals and the    *)
(* physics engine are collaborators: a robot answers its spaces and an     *)
(* observation, keeps the list of its sensors and takes an action; an      *)
(* obstacle or goal answers its position at a time; the engine keeps the   *)
(* position of each body.  Time is counted in steps of dt.                 *)
(***************************************************************************)
\* The robots the environment is constructed with, in list order.
Robots == { 0, 1 }

\* The spaces robot.get_spaces() answers: the position of one joint in the
\* Box [-1, 1], a mode in Discrete(2), the action in the Box [-1, 1].
RobotSpaces ==
    [observation |->
        [joint_state |-> [kind |-> "Box", low |-> -1, high |-> 1],
         mode |-> [kind |-> "Discrete", low |-> 0, high |-> 1]],
     action |-> [kind |-> "Box", low |-> -1, high |-> 1]]

\* The entries of a robot's observation, in the order of the dict.
Entries == << "joint_state", "mode" >>

\* The actions passed to step(): inside the action space, and outside it
\* in the entry of robot 0.
Actions == { << 0, 1 >>, << 2, 0 >> }

\* The observations the robots answer, by robot, every entry an array:
\* all inside their spaces, the joint position of each robot outside its
\* Box, or the mode of a robot outside its Discrete space.
Observations ==
    { [r \in Robots |-> [joint_state |-> 0, mode |-> 0]],
      [r \in Robots |-> [joint_state |-> IF r = 0 THEN 2 ELSE -2, mode |-> 1]],
      [r \in Robots |-> [joint_state |-> 1, mode |-> IF r = 0 THEN 2 ELSE 0]] }

\* The sensor objects there are: two Lidars, both named as Lidar.__init__
\* names them.
SensorObjects ==
    { [obj |-> "lidar_a", name |-> "LidarSensor"],
      [obj |-> "lidar_b", name |-> "LidarSensor"] }

\* The robot_ids lists passed to add_sensor.
RobotIdLists == { << 0 >>, << 1 >>, << 0, 1 >> }

\* obst.position(t) and goal.position(t): a trajectory that is somewhere
\* else at each time.
PositionAt(t) == t

NoInfo == [key |-> "", value |-> << >>]
NoFailure == [body |-> 0, stage |-> ""]
NoStep ==
    [kind |-> "none", ob |-> << >>, reward |-> 0, terminated |-> FALSE,
     truncated |-> FALSE, info |-> NoInfo]
NoStepIn == [action |-> << >>, ob |-> << >>, fail |-> NoFailure]
NoReset == [kind |-> "none", ob |-> << >>, info |-> NoInfo, steps |-> 0]

\* The sensors attached to the robots, in the order set_spaces meets them.
AttachedSensors(rs) == rs[0] \o rs[1]

\* (a list built anew from the sensors attached now)
SensorsRebuilt(sens, rs) == AttachedSensors(rs)

\* self.sensors after set_spaces: every sensor of every robot appended.
SensorsAfterSetSpaces(sens, rs) == sens \o AttachedSensors(rs)

\* self.observation_space after set_spaces: for each robot the robot's own
\* space and one entry for each name among its sensors.
ObservationSpaceAfterSetSpaces(rs) ==
    [r \in Robots |->
        [joint_state |-> RobotSpaces.observation.joint_state,
         mode |-> RobotSpaces.observation.mode,
         sensor_keys |-> { rs[r][i].name : i \in 1..Len(rs[r]) }]]

\* self.action_space after set_spaces: the robots' action spaces flattened.
ActionSpaceAfterSetSpaces ==
    [low |-> [r \in 1..Cardinality(Robots) |-> RobotSpaces.action.low],
     high |-> [r \in 1..Cardinality(Robots) |-> RobotSpaces.action.high]]

\* action_space.contains(action)
ActionContains(space, action) ==
    /\ Len(action) = Len(space.low)
    /\ \A i \in 1..Len(action) :
           space.low[i] <= action[i] /\ action[i] <= space.high[i]

\* (an action taken as it comes)
ActionUnchecked(done, info, space, action) == [done |-> done, info |-> info]

\* step: _done and _info after the action check.
ActionChecked(done, info, space, action) ==
    IF ~ActionContains(space, action)
    THEN [done |-> TRUE, info |-> [key |-> "action_limits", value |-> action]]
    ELSE [done |-> done, info |-> info]

\* space.contains(value), for a Box and for a Discrete space.
SpaceContains(space, value) == space.low <= value /\ value <= space.high

\* observation_space.contains(observation)
ObservationContains(space, ob) ==
    \A r \in Robots : \A i \in 1..Len(Entries) :
        SpaceContains(space[r][Entries[i]], ob[r][Entries[i]])

\* check_observation: an array declared Discrete is passed over; the first
\* other array outside its space raises WrongObservationError, naming the
\* robot and the value.
check_observation(space, ob) ==
    LET outside ==
            { e \in Robots \X (1..Len(Entries)) :
                /\ space[e[1]][Entries[e[2]]].kind # "Discrete"
                /\ ~SpaceContains(space[e[1]][Entries[e[2]]],
                                  ob[e[1]][Entries[e[2]]]) }
        first == CHOOSE e \in outside :
                     \A f \in outside :
                         e[1] < f[1] \/ (e[1] = f[1] /\ e[2] <= f[2])
    IN  IF outside = { }
        THEN [raised |-> FALSE, msg |-> << >>]
        ELSE [raised |-> TRUE,
              msg |-> << first[1], ob[first[1]][Entries[first[2]]] >>]

\* (a flag computed anew from each observation)
get_ob_unlatched(done, info, space, ob, checking) ==
    IF ~ObservationContains(space, ob) /\ checking
    THEN [done |-> TRUE,
          info |-> [key |-> "observation_limits",
                    value |-> check_observation(space, ob).msg]]
    ELSE [done |-> FALSE, info |-> info]

\* _get_ob: _done and _info after the observation was composed and checked.
get_ob(done, info, space, ob, checking) ==
    IF ~ObservationContains(space, ob) /\ checking
          /\ check_observation(space, ob).raised
    THEN [done |-> TRUE,
          info |-> [key |-> "observation_limits",
                    value |-> check_observation(space, ob).msg]]
    ELSE [done |-> done, info |-> info]

\* The failures one update pass can meet: none, or one obstacle or goal
\* whose position(t) raises or whose new pose the engine rejects; the body
\* is left where it was.
Failures ==
    { NoFailure }
      \cup { [body |-> b, stage |-> "position"] :
                b \in { o \in DOMAIN obsts : ~obsts[o].movable } \cup DOMAIN goals }

\* (a pass that ends at the first failure)
update_obstacles_stopping(pos, t, fail) ==
    [b \in DOMAIN pos |->
        IF /\ b \in DOMAIN obsts
           /\ ~obsts[b].movable
           /\ (fail.body \notin DOMAIN obsts \/ b < fail.body)
        THEN PositionAt(t) ELSE pos[b]]

\* update_obstacles: the engine's positions after the pass.
update_obstacles(pos, t, fail) ==
    [b \in DOMAIN pos |->
        IF /\ b \in DOMAIN obsts
           /\ ~obsts[b].movable
           /\ ~(fail.body = b /\ fail.stage = "position")
        THEN PositionAt(t) ELSE pos[b]]

\* update_goals: the engine's positions after the pass.
update_goals(pos, t, fail) ==
    [b \in DOMAIN pos |->
        IF b \in DOMAIN goals /\ ~(fail.body = b /\ fail.stage = "position")
        THEN PositionAt(t) ELSE pos[b]]

\* reset_obstacles and reset_goals: every obstacle and goal at its position
\* at time 0.
reset_bodies(pos) ==
    [b \in DOMAIN pos |->
        IF b \in DOMAIN obsts \cup DOMAIN goals THEN PositionAt(0) ELSE pos[b]]

\* UrdfEnv(robots, observation_checking=...): the state after __init__,
\* which ends with set_spaces().
EnvInit ==
    /\ observation_checking \in BOOLEAN
    /\ env_t = 0
    /\ env_done = FALSE
    /\ env_info = NoInfo
    /\ robot_sensors = [r \in Robots |-> << >>]
    /\ sensors = SensorsAfterSetSpaces(<< >>, robot_sensors)
    /\ observation_space = ObservationSpaceAfterSetSpaces(robot_sensors)
    /\ action_space = ActionSpaceAfterSetSpaces
    /\ obsts = << >>
    /\ goals = << >>
    /\ body_pos = << >>
    /\ next_body = 1
    /\ applied = [r \in Robots |-> << >>]
    /\ sim_steps = 0
    /\ step_in = NoStepIn
    /\ step_ret = NoStep
    /\ reset_ret = NoReset
    /\ nSetSpaces = 1

\* An environment never used.
EnvIdle == EnvInit /\ observation_checking

\* step(action), in which the robots answer the observation ob and the
\* update pass meets the failure fail.
step(action, ob, fail) ==
    \E checked \in { ActionChecked(env_done, env_info, action_space, action) } :
    \E seen \in { get_ob(checked.done, checked.info, observation_space, ob,
                         observation_checking) } :
        /\ env_t' = env_t + 1
        /\ applied' = [r \in Robots |-> << action[r + 1] >>]
        /\ body_pos' = update_goals(update_obstacles(body_pos, env_t + 1, fail),
                                    env_t + 1, fail)
        /\ sim_steps' = sim_steps + 1
        /\ env_done' = seen.done
        /\ env_info' = seen.info
        /\ step_in' = [action |-> action, ob |-> ob, fail |-> fail]
        /\ step_ret' = [kind |-> "returned", ob |-> ob, reward |-> 1,
                        terminated |-> seen.done, truncated |-> FALSE,
                        info |-> seen.info]
        /\ UNCHANGED << observation_checking, robot_sensors, sensors,
                        observation_space, action_space, obsts, goals,
                        next_body, reset_ret, nSetSpaces >>
        /\ UNCHANGED << lidar_vars, transform_vars >>

Step ==
    /\ sim_steps < MaxSteps
    /\ \E action \in Actions, ob \in Observations, fail \in Failures :
           step(action, ob, fail)

\* reset(), after which the robots answer the observation ob.
Reset ==
    \E ob \in Observations :
    \E seen \in { get_ob(env_done, env_info, observation_space, ob,
                         observation_checking) } :
        /\ env_t' = 0
        /\ applied' = [r \in Robots |-> << >>]
        /\ body_pos' = reset_bodies(body_pos)
        /\ env_done' = seen.done
        /\ env_info' = seen.info
        /\ reset_ret' = [kind |-> "returned", ob |-> ob, info |-> seen.info,
                         steps |-> sim_steps]
        /\ UNCHANGED << observation_checking, robot_sensors, sensors,
                        observation_space, action_space, obsts, goals,
                        next_body, sim_steps, step_in, step_ret, nSetSpaces >>
        /\ UNCHANGED << lidar_vars, transform_vars >>

\* add_obstacle(obst): the engine creates the body at obst.position().
AddObstacle ==
    /\ next_body <= MaxBodies
    /\ \E movable \in BOOLEAN :
           obsts' = [b \in DOMAIN obsts \cup { next_body } |->
                        IF b = next_body THEN [movable |-> movable]
                        ELSE obsts[b]]
    /\ body_pos' = [b \in DOMAIN body_pos \cup { next_body } |->
                       IF b = next_body THEN PositionAt(0) ELSE body_pos[b]]
    /\ next_body' = next_body + 1
    /\ UNCHANGED << observation_checking, env_t, env_done, env_info,
                    robot_sensors, sensors, observation_space, action_space,
                    goals, applied, sim_steps, step_in, step_ret, reset_ret,
                    nSetSpaces >>
    /\ UNCHANGED << lidar_vars, transform_vars >>

\* add_goal(goal), goal a SubGoal: the engine creates its marker body.
AddGoal ==
    /\ next_body <= MaxBodies
    /\ goals' = [b \in DOMAIN goals \cup { next_body } |-> [kind |-> "SubGoal"]]
    /\ body_pos' = [b \in DOMAIN body_pos \cup { next_body } |->
                       IF b = next_body THEN PositionAt(0) ELSE body_pos[b]]
    /\ next_body' = next_body + 1
    /\ UNCHANGED << observation_checking, env_t, env_done, env_info,
                    robot_sensors, sensors, observation_space, action_space,
                    obsts, applied, sim_steps, step_in, step_ret, reset_ret,
                    nSetSpaces >>
    /\ UNCHANGED << lidar_vars, transform_vars >>

\* empty_scene(): the goals' and obstacles' bodies are removed.
EmptyScene ==
    /\ DOMAIN obsts \cup DOMAIN goals # { }
    /\ body_pos' = [b \in DOMAIN body_pos \ (DOMAIN obsts \cup DOMAIN goals) |->
                       body_pos[b]]
    /\ goals' = << >>
    /\ obsts' = << >>
    /\ UNCHANGED << observation_checking, env_t, env_done, env_info,
                    robot_sensors, sensors, observation_space, action_space,
                    next_body, applied, sim_steps, step_in, step_ret,
                    reset_ret, nSetSpaces >>
    /\ UNCHANGED << lidar_vars, transform_vars >>

\* robot.add_sensor(sensor): the robot's list of sensors after the call.
robot_add_sensor(list, sensor) == Append(list, sensor)

RECURSIVE AttachTo(_, _, _)
\* for i in robot_ids: self._robots[i].add_sensor(sensor)
AttachTo(rs, sensor, robot_ids) ==
    IF robot_ids = << >> THEN rs
    ELSE AttachTo([rs EXCEPT ![Head(robot_ids)] = robot_add_sensor(@, sensor)],
                  sensor, Tail(robot_ids))

\* The number of sensors attached, over all robots.
NumAttached(rs) == Len(AttachedSensors(rs))

\* add_sensor(sensor, robot_ids)
AddSensor ==
    /\ \E sensor \in SensorObjects, robot_ids \in RobotIdLists :
           /\ NumAttached(robot_sensors) + Len(robot_ids) <= MaxAttached
           /\ robot_sensors' = AttachTo(robot_sensors, sensor, robot_ids)
    /\ UNCHANGED << observation_checking, env_t, env_done, env_info, sensors,
                    observation_space, action_space, obsts, goals, body_pos,
                    next_body, applied, sim_steps, step_in, step_ret,
                    reset_ret, nSetSpaces >>
    /\ UNCHANGED << lidar_vars, transform_vars >>

\* set_spaces()
SetSpaces ==
    /\ nSetSpaces <= MaxSetSpaces
    /\ nSetSpaces' = nSetSpaces + 1
    /\ sensors' = SensorsAfterSetSpaces(sensors, robot_sensors)
    /\ observation_space' = ObservationSpaceAfterSetSpaces(robot_sensors)
    /\ action_space' = ActionSpaceAfterSetSpaces
    /\ UNCHANGED << observation_checking, env_t, env_done, env_info,
                    robot_sensors, obsts, goals, body_pos, next_body, applied,
                    sim_steps, step_in, step_ret, reset_ret >>
    /\ UNCHANGED << lidar_vars, transform_vars >>

(***************************************************************************)
(* The specifications: the sensor under sense() calls, with a working      *)
(* engine (Spec) and with failing marker operations (FaultSpec); the       *)
(* transform utilities under calls on one pair of arguments                *)
(* (TransformSpec); the environment under step() and reset() with          *)
(* obstacles and goals (StepSpec) and under add_sensor() and set_spaces()  *)
(* (SpacesSpec).                                                           *)
(***************************************************************************)
Init == LidarInit /\ TransformIdle /\ EnvIdle
Next == Sense
Spec == Init /\ [][Next]_vars

FaultNext == SenseWithFaults
FaultSpec == Init /\ [][FaultNext]_vars

TransformSpecInit == LidarIdle /\ TransformInit /\ EnvIdle
TransformNext ==
    \/ GetTransformationMatrix
    \/ MatrixToQuaternion
    \/ QuaternionToRotationMatrix
TransformSpec == TransformSpecInit /\ [][TransformNext]_vars

EnvSpecInit == LidarIdle /\ TransformIdle /\ EnvInit
StepNext == Step \/ Reset \/ AddObstacle \/ AddGoal
StepSpec == EnvSpecInit /\ [][StepNext]_vars

SpacesNext == AddSensor \/ SetSpaces \/ Reset \/ EmptyScene \/ AddObstacle
SpacesSpec == EnvSpecInit /\ [][SpacesNext]_vars

(***************************************************************************)
(* Properties of the Lidar sensor.                                         *)
(***************************************************************************)
\* The last sense() call got past mount resolution: it queried the link
\* pose, cast the rays and stored the arrays.
Sensed == link_queries # << >>

\* C1: mount resolution is memoized: once a sense() call has resolved the
\* mount name to a link handle, no later sense() call scans the joint names
\* again, so extract_link_id has run at most once, whatever index the name
\* resolved to.
MountResolutionMemoized == nResolved >= 1 => nScans <= 1

\* C2: a Lidar constructed with an integer link handle h never performs name
\* resolution; every sense() call queries the pose of exactly link h and
\* raises no mount-resolution error, for every valid h including 0.
IntegerHandleNeverResolved ==
    link_name.is_int =>
        /\ nScans = 0
        /\ ret.kind # "LinkIdNotFoundError"
        /\ nSense > 0 => link_queries = << link_name.id >>

\* C3: extract_link_id sets the link handle to the smallest joint index whose
\* name equals the configured mount name; if no joint name matches, it
\* raises LinkIdNotFoundError listing every joint name of the body and
\* leaves the link handle as it was, unresolved.
ExtractLinkIdFirstMatchOrError ==
    LET matches(i) == ~link_name.is_int /\ joint_names[i + 1] = link_name.name
        indices == 0..(Len(joint_names) - 1)
    IN  /\ nResolved >= 1 =>
              \E i \in indices :
                  /\ matches(i)
                  /\ \A k \in 0..(i - 1) : ~matches(k)
                  /\ link_id = << i >>
        /\ (nScans >= 1 /\ \E i \in indices : matches(i)) =>
              /\ nResolved >= 1
              /\ ret.kind # "LinkIdNotFoundError"
        /\ (nScans >= 1 /\ \A i \in indices : ~matches(i)) =>
              /\ ret.kind = "LinkIdNotFoundError"
              /\ ret.msg = joint_names
              /\ nResolved = 0
              /\ link_id = IF link_name.is_int THEN << link_name.id >> ELSE << >>
        /\ ret.kind = "LinkIdNotFoundError" => nScans >= 1

\* C3 witness: the name "missing" was looked up among four joints and the
\* error lists all four.
ExtractLinkIdFailed ==
    /\ ~link_name.is_int
    /\ ret.kind = "LinkIdNotFoundError"
    /\ Len(ret.msg) = 4
    /\ link_id = << >>

\* C4: the marker bodies are created once per sensor: at most nb_rays are
\* ever created, all in one sense() call, which is the first one unless a
\* marker operation of the engine failed; with no such failure a call that
\* returns leaves every ray with a marker at its hit position, and once the
\* markers exist a call only repositions them.
MarkersCreatedInv ==
    /\ Len(create_log) <= nb_rays
    /\ \A a, b \in 1..Len(create_log) : create_log[a] = create_log[b]
    /\ ~vis_fault => \A a \in 1..Len(create_log) : create_log[a] = 1
    /\ (ret.kind = "ok" /\ ~vis_fault) =>
          /\ Len(create_log) = nb_rays
          /\ Len(marker_pos) = nb_rays
          /\ \A k \in 1..nb_rays :
                /\ sphere_ids[k] \in 1..Len(marker_pos)
                /\ marker_pos[sphere_ids[k]] =
                       << last_pose.pos[1] + rel_positions[2 * k - 1],
                          last_pose.pos[2] + rel_positions[2 * k],
                          last_pose.pos[3] >>
MarkersKept ==
    sphere_ids[1] # -1 =>
        /\ sphere_ids' = sphere_ids
        /\ create_log' = create_log
        /\ Len(marker_pos') = Len(marker_pos)
MarkersCreatedOnce == [] MarkersCreatedInv /\ [][MarkersKept]_vars

\* C4 witness: a third sense() call has returned, with two markers that the
\* first call created.
MarkersReused ==
    /\ nSense >= 3
    /\ ret.kind = "ok"
    /\ nb_rays >= 2
    /\ create_log = [k \in 1..nb_rays |-> 1]

\* C5: marker visualization is best-effort: a failing marker operation never
\* makes sense() fail, so every sense() call that got past mount resolution
\* returns the array it computed.
MarkersBestEffort ==
    Sensed =>
        /\ ret.kind = "ok"
        /\ ret.value = IF raw_data THEN distances ELSE rel_positions

\* C6 as stated: every array sense() returns is in the declared observation
\* space, and every stored distance d satisfies 0 <= d <= R.
ObservationInSpaceStrict ==
    /\ ret.kind = "ok" => InObservationSpace(ret.value)
    /\ \A i \in 1..nb_rays : 0 <= distances[i] /\ distances[i] <= ray_length

\* C6 as amended: every array sense() returns is in the declared observation
\* space (length get_observation_size(), every component within
\* [-(R + 0.01), R + 0.01]), and every stored distance d satisfies
\* 0 <= d <= R + 0.01: rounding can carry a distance past R, within the slack.
ObservationInSpace ==
    /\ ret.kind = "ok" =>
          /\ Len(ret.value) = IF raw_data THEN nb_rays ELSE 2 * nb_rays
          /\ InObservationSpace(ret.value)
    /\ \A i \in 1..nb_rays :
          0 <= distances[i] /\ distances[i] <= ray_length + Epsilon

\* C6 witness: a relative-position observation of two rays that miss, sensed
\* at a yaw at which rounding matters.
ObservationSensed ==
    /\ ret.kind = "ok"
    /\ ~raw_data
    /\ nb_rays = 2
    /\ last_pose.yaw # 0
    /\ \A i \in 1..nb_rays : last_hits[i] = HitDen

\* C7: the ray angles are theta_min + i * (theta_max - theta_min) / N for
\* i = 0..N-1 (N of them, theta_max never among them), and no sense() call
\* changes the angles, the ray count, the range, the mode or the limits.
AnglesInv ==
    /\ Len(thetas) = nb_rays
    /\ \A i \in 1..nb_rays :
          /\ nb_rays * (thetas[i] - angle_limits[1]) =
                 (i - 1) * (angle_limits[2] - angle_limits[1])
          /\ thetas[i] < angle_limits[2]
GeometryKept ==
    UNCHANGED << thetas, nb_rays, ray_length, raw_data, angle_limits >>
AnglesFixed == [] AnglesInv /\ [][GeometryKept]_vars

\* C7 witness: two sense() calls on different poses have run over two rays.
AnglesAfterSensing ==
    /\ nSense >= 2
    /\ Sensed
    /\ nb_rays = 2
    /\ last_pose.yaw # 0
    /\ distances # [i \in 1..nb_rays |-> 0]

\* What C8 says of the engine calls, the offsets and the returned array:
\* one link-pose query, then one raycast per ray in index order from the
\* link position to the point at range R in direction theta_i + yaw;
\* offset_i = f_i * R * (cos, sin); distances returned in raw mode, the
\* flattened offsets otherwise.
RaysAsSpecified ==
    Sensed =>
        /\ link_queries = << link_id[1] >>
        /\ Len(ray_tests) = nb_rays
        /\ Len(distances) = nb_rays
        /\ Len(rel_positions) = 2 * nb_rays
        /\ \A i \in 1..nb_rays :
              LET a == thetas[i] + last_pose.yaw
                  p == last_pose.pos
              IN  /\ ray_tests[i][1] = p
                  /\ ray_tests[i][2] =
                         << p[1] + RoundDiv(ray_length * Cos(a), TrigScale),
                            p[2] + RoundDiv(ray_length * Sin(a), TrigScale),
                            p[3] >>
                  /\ rel_positions[2 * i - 1] =
                         RoundDiv(last_hits[i] * ray_length * Cos(a),
                                  HitDen * TrigScale)
                  /\ rel_positions[2 * i] =
                         RoundDiv(last_hits[i] * ray_length * Sin(a),
                                  HitDen * TrigScale)
        /\ ret.kind = "ok" =>
              ret.value = IF raw_data THEN distances ELSE rel_positions

\* C8 as stated: each sense() call queries the link pose once and casts one
\* ray per ray index, stores offset_i = f_i * R * (cos, sin) and
\* distance_i = f_i * R exactly, so that with no obstacles raw mode returns R
\* for every ray.
SenseComputesRaysExact ==
    /\ RaysAsSpecified
    /\ Sensed =>
          \A i \in 1..nb_rays : HitDen * distances[i] = last_hits[i] * ray_length

\* C8 as amended: as stated, except that distance_i is the norm of the
\* stored offset, which equals f_i * R to within one rounding unit; with no
\* obstacles raw mode returns R to within one rounding unit for every ray.
SenseComputesRays ==
    /\ RaysAsSpecified
    /\ Sensed =>
          \A i \in 1..nb_rays :
              /\ distances[i] =
                     SqrtRound(rel_positions[2 * i - 1] * rel_positions[2 * i - 1]
                               + rel_positions[2 * i] * rel_positions[2 * i])
              /\ Abs(HitDen * distances[i] - last_hits[i] * ray_length) <= HitDen
    /\ (ret.kind = "ok" /\ raw_data /\ \A i \in 1..nb_rays : last_hits[i] = HitDen) =>
          \A i \in 1..nb_rays : Abs(ret.value[i] - ray_length) <= 1

\* C8 witness: a raw-mode call over two rays at a nonzero yaw, one ray hit
\* halfway and one ray missing.
RaysSensed ==
    /\ ret.kind = "ok"
    /\ raw_data
    /\ nb_rays = 2
    /\ last_pose.yaw # 0
    /\ last_hits[1] = 1
    /\ last_hits[2] = HitDen

\* C9: sense() is idempotent under an unchanged world: a sense() call on the
\* same link pose and the same hit fractions as the call before it leaves
\* the distance and offset arrays equal and, when both return, returns an
\* equal array, whatever earlier calls stored.
SenseRepeats ==
    (/\ Sensed
     /\ Sensed'
     /\ nSense' = nSense + 1
     /\ last_pose' = last_pose
     /\ last_hits' = last_hits) =>
        /\ distances' = distances
        /\ rel_positions' = rel_positions
        /\ (ret.kind = "ok" /\ ret'.kind = "ok") => ret'.value = ret.value
SenseIdempotent == [][SenseRepeats]_vars

\* C9 witness: the third sense() call returned on the same pose and hits as
\* the second, with a ray hit halfway at a nonzero yaw.
SenseRepeated ==
    /\ repeated
    /\ nSense >= 3
    /\ last_pose.yaw # 0
    /\ \E i \in 1..nb_rays : last_hits[i] = 1


\* C15: sense() returns the sensor's own array, not a copy: after a sense()
\* call has returned, every array object returned by an earlier sense() call
\* of the sensor holds the result of the latest call, so an observation the
\* caller kept is overwritten.
EarlierArraysHoldLatest ==
    ret.kind = "ok" => \A a \in returned : heap[a] = ret.value

\* C15 witness: a sense() call has returned after an earlier one, and has
\* changed the contents of the array the earlier call returned.
EarlierArrayOverwritten ==
    /\ ret.kind = "ok"
    /\ nSense >= 2
    /\ overwritten


(***************************************************************************)
(* Properties of the transform utilities.                                  *)
(***************************************************************************)
\* C10: round trip: for every unit quaternion q and translation t,
\* matrix_to_quaternion(get_transformation_matrix(q, t)), called with no
\* ordering, returns (t', q') with t' = t and q' = q or q' = -q, q' in the
\* component ordering of q.
TransformRoundTrip ==
    (/\ IsUnit(q_in)
     /\ tf_ret.kind = "ok"
     /\ tf_ret.ordering = DefaultOrdering) =>
        /\ tf_ret.translation = t_arg
        /\ QEq(tf_ret.quaternion, q_in) \/ QEq(tf_ret.quaternion, QNeg(q_in))

\* C11: an unsupported ordering token is always an error: a call of
\* quaternion_to_rotation_matrix or of matrix_to_quaternion with an ordering
\* other than 'wxyz' and 'xyzw' raises InvalidQuaternionOrderError and
\* returns nothing, neither a default nor a partly computed result.
UnsupportedOrderingRaises ==
    /\ (rot_ret.kind # "none" /\ rot_ret.ordering \notin { "wxyz", "xyzw" }) =>
           /\ rot_ret.kind = "InvalidQuaternionOrderError"
           /\ rot_ret.rot = << >>
    /\ (tf_ret.kind # "none" /\ tf_ret.ordering \notin { "wxyz", "xyzw" }) =>
           /\ tf_ret.kind = "InvalidQuaternionOrderError"
           /\ tf_ret.translation = << >>

\* C11 witness: both functions have been called with the ordering "bogus".
UnsupportedOrderingPassed ==
    /\ rot_ret.ordering = "bogus"
    /\ tf_ret.ordering = "bogus"

\* The array a is the array b scaled to length one.
IsNormalizedFrom(a, b) ==
    /\ IsUnit(a)
    /\ \A i, j \in 1..4 : a.num[i] * b.num[j] = a.num[j] * b.num[i]
    /\ \A i \in 1..4 : a.num[i] * b.num[i] >= 0

\* C17: quaternion_to_rotation_matrix normalizes the caller's array in
\* place before it looks at the ordering: after the call the array holds the
\* normalized quaternion, also when the call raised
\* InvalidQuaternionOrderError; get_transformation_matrix does the same to
\* its quaternion argument and leaves the translation argument as it was.
NormalizesArgument ==
    (rot_ret' # rot_ret \/ tf_matrix' # tf_matrix) =>
        /\ IsNormalizedFrom(q_arg', q_arg)
        /\ IsNormalizedFrom(q_arg', q_in)
        /\ t_arg' = t_arg
NormalizedInPlace == [][NormalizesArgument]_vars

\* C17 witness: a call on an array not of length one has raised
\* InvalidQuaternionOrderError, and get_transformation_matrix has been
\* called on the same array with a nonzero translation.
NormalizedOnError ==
    /\ ~IsUnit(q_in)
    /\ rot_ret.kind = "InvalidQuaternionOrderError"
    /\ tf_matrix # NoMatrix
    /\ t_arg # << 0, 0, 0 >>

(***************************************************************************)
(* Properties of UrdfEnv.                                                  *)
(***************************************************************************)
\* This step is a step() call; its inputs are step_in', its outcome
\* step_ret'.
StepTaken == sim_steps' = sim_steps + 1

\* The action of this step() call is not in the action space.
ActionViolated == ~ActionContains(action_space, step_in'.action)

\* The observation has an array outside its declared Box.
BoxOutside(space, ob) ==
    \E r \in Robots : \E i \in 1..Len(Entries) :
        /\ space[r][Entries[i]].kind = "Box"
        /\ ~SpaceContains(space[r][Entries[i]], ob[r][Entries[i]])

\* The observation of this step() call has an array outside its space, and
\* observations are checked.
ObservationOutside ==
    /\ observation_checking
    /\ ~ObservationContains(observation_space, step_in'.ob)

\* The observation of this step() call has an array outside its Box, and
\* observations are checked.
ObservationViolated ==
    /\ observation_checking
    /\ BoxOutside(observation_space, step_in'.ob)

\* What step() does whatever the spaces say: it returns, having applied the
\* action, advanced the time and the physics, and returns the observation;
\* an out-of-space observation that is not checked does not set terminated.
StepCompletes ==
    /\ step_ret'.kind = "returned"
    /\ \A r \in Robots : applied'[r] = << step_in'.action[r + 1] >>
    /\ env_t' = env_t + 1
    /\ sim_steps' = sim_steps + 1
    /\ step_ret'.ob = step_in'.ob
    /\ (~observation_checking /\ ~ActionViolated /\ ~env_done) =>
           ~step_ret'.terminated

\* C12 as stated: step() never raises on a space violation: when the action
\* is not in the action space the step returns terminated=True with info
\* naming 'action_limits', when (checking enabled) an observation array is
\* outside its space it returns terminated=True with info naming
\* 'observation_limits'; the step still applies the action, advances time
\* and physics and returns the observation; with checking disabled an
\* out-of-space observation never sets terminated.
StepNamesEachViolation ==
    StepTaken =>
        /\ StepCompletes
        /\ ActionViolated =>
               /\ step_ret'.terminated
               /\ step_ret'.info.key = "action_limits"
        /\ ObservationOutside =>
               /\ step_ret'.terminated
               /\ step_ret'.info.key = "observation_limits"
StepNamesLastViolation ==
    StepTaken =>
        /\ StepCompletes
        /\ step_ret'.terminated =
               (env_done \/ ActionViolated \/ ObservationViolated)
        /\ ActionViolated =>
               /\ step_ret'.terminated
               /\ step_ret'.info.key = IF ObservationViolated
                                       THEN "observation_limits"
                                       ELSE "action_limits"
               /\ ~ObservationViolated =>
                      step_ret'.info.value = step_in'.action
        /\ ObservationViolated =>
               /\ step_ret'.terminated
               /\ step_ret'.info.key = "observation_limits"
Repositioned == { b \in DOMAIN obsts : ~obsts[b].movable } \cup DOMAIN goals

\* C13: a failure while updating one obstacle's or goal's pose is swallowed:
\* the other obstacles and goals are still updated in the same pass, step()
\* returns, and terminated and info are what the spaces alone make them;
\* movable obstacles are never repositioned by the pass.
UpdateFailureIsSwallowed ==
    StepTaken =>
        /\ \A b \in DOMAIN obsts :
               obsts[b].movable => body_pos'[b] = body_pos[b]
        /\ step_in'.fail # NoFailure =>
               /\ step_ret'.kind = "returned"
               /\ \A b \in Repositioned \ { step_in'.fail.body } :
                      body_pos'[b] = PositionAt(env_t')
               /\ step_ret'.terminated =
                      (env_done \/ ActionViolated \/ ObservationViolated)
               /\ (~ActionViolated /\ ~ObservationViolated) =>
                      step_ret'.info = env_info
UpdateFailureSwallowed == [][UpdateFailureIsSwallowed]_vars

\* C13 witness: in the last step() the update of the first body failed, the
\* body after it was moved to its position at the new time, and the step
\* returned terminated=False with empty info.
LaterBodyUpdatedAfterFailure ==
    /\ step_ret.kind = "returned"
    /\ step_in.fail # NoFailure
    /\ \E b \in Repositioned :
           /\ b > step_in.fail.body
           /\ env_t > 0
           /\ body_pos[b] = PositionAt(env_t)
           /\ body_pos[step_in.fail.body] # PositionAt(env_t)
    /\ ~step_ret.terminated
    /\ step_ret.info = NoInfo

\* The latch: no operation clears the done flag; a step() taken with the
\* flag set returns terminated=True, and info changes only when an operation
\* finds a violation of its own.
LatchHolds ==
    /\ env_done => env_done'
    /\ (StepTaken /\ env_done) =>
           /\ step_ret'.terminated
           /\ step_ret'.info = env_info'
           /\ (~ActionViolated /\ ~ObservationViolated) => env_info' = env_info
    /\ (StepTaken /\ step_ret.terminated) => step_ret'.terminated

\* C14 as stated: the terminated flag is a latch that reset() does not
\* clear: once a step() has returned terminated=True every later step()
\* returns terminated=True and the last violation info, also after reset();
\* reset() sets the time to 0 and leaves the done flag and info unchanged.
LatchAndResetKeepsInfo ==
    /\ LatchHolds
    /\ ~StepTaken => (env_done' = env_done /\ env_info' = env_info)
    /\ reset_ret' # reset_ret => env_t' = 0
TerminatedLatchedResetInert == [][LatchAndResetKeepsInfo]_vars

\* C14 amended: as above, but reset() leaves the done flag and info
\* unchanged only when its own observation has no array outside its Box or
\* observations are not checked; otherwise reset() sets the flag and
\* replaces info by its own 'observation_limits' entry.
LatchAndResetChecks ==
    /\ LatchHolds
    /\ ~StepTaken =>
           \/ env_done' = env_done /\ env_info' = env_info
           \/ /\ reset_ret' # reset_ret
              /\ observation_checking
              /\ BoxOutside(observation_space, reset_ret'.ob)
              /\ env_done'
              /\ env_info'.key = "observation_limits"
    /\ reset_ret' # reset_ret => env_t' = 0
TerminatedLatched == [][LatchAndResetChecks]_vars

\* C14 witness: after a reset() a step() with an action in the action space
\* and an observation in the observation space has returned
\* terminated=True, with the info of the earlier action violation.
TerminatedAfterReset ==
    /\ step_ret.kind = "returned"
    /\ reset_ret.kind = "returned"
    /\ env_t = 1
    /\ sim_steps >= 2
    /\ ActionContains(action_space, step_in.action)
    /\ ObservationContains(observation_space, step_in.ob)
    /\ ObservationContains(observation_space, reset_ret.ob)
    /\ step_ret.terminated
    /\ step_ret.info.key = "action_limits"

\* The number of times x is in the list.
Count(x, list) == Cardinality({ i \in 1..Len(list) : list[i] = x })

\* What holds of env.sensors whatever the multiplicity: the list is only
\* appended to, and only by set_spaces(); after set_spaces() the observation
\* space of each robot holds one entry for each name among its sensors.
SensorsAppendOnly ==
    /\ Len(sensors') >= Len(sensors)
    /\ SubSeq(sensors', 1, Len(sensors)) = sensors
    /\ nSetSpaces' = nSetSpaces => sensors' = sensors
    /\ nSetSpaces' # nSetSpaces =>
           \A r \in Robots :
               observation_space'[r].sensor_keys =
                   { s.name : s \in { x \in SensorObjects :
                                        Count(x, robot_sensors[r]) > 0 } }

\* C16 as stated: env.sensors only grows: each set_spaces() call appends
\* every sensor attached to every robot and nothing removes entries, so
\* each set_spaces() call after add_sensor adds the sensor once (k calls, k
\* times); the observation space holds one entry per sensor name per robot.
SensorsGrowOncePerCall ==
    /\ SensorsAppendOnly
    /\ nSetSpaces' # nSetSpaces =>
           \A s \in SensorObjects :
               Count(s, AttachedSensors(robot_sensors)) > 0 =>
                   Count(s, sensors') = Count(s, sensors) + 1
SensorsGrowOnce == [][SensorsGrowOncePerCall]_vars

\* C16 amended: as above, but each set_spaces() call adds a sensor once for
\* each attachment of it: a sensor attached to m robots appears m * k times
\* after k calls.
SensorsGrowPerAttachment ==
    /\ SensorsAppendOnly
    /\ nSetSpaces' # nSetSpaces =>
           \A s \in SensorObjects :
               Count(s, sensors') =
                   Count(s, sensors) + Count(s, AttachedSensors(robot_sensors))
SensorsOnlyGrow == [][SensorsGrowPerAttachment]_vars

\* C16 witness: a sensor attached to both robots before two set_spaces()
\* calls is in env.sensors four times; each robot's observation space has
\* one entry for it.
SensorListedPerAttachment ==
    \E s \in SensorObjects :
        /\ \A r \in Robots : robot_sensors[r] = << s >>
        /\ nSetSpaces = 3
        /\ Count(s, sensors) = 4
        /\ \A r \in Robots : observation_space[r].sensor_keys = { s.name }


=============================================================================
